---- MODULE Spec2Model ----
(***************************************************************************)
(* Model of the background-removal scripts of morostick-backend:           *)
(*   python/rmbg2_inference.py  ONNX backend (RMBG-2.0)                    *)
(*   python/rmbg_inference.py   model-hub backend (RMBG-1.4)               *)
(*   python/test_rmbg2.py       smoke test and backend comparison          *)
(* One process runs one entry point from start to termination.  A path is  *)
(* a sequence of tokens ("/" and "." are tokens of their own), an image is *)
(* a record of its size (width, height), mode and, where the pixel values  *)
(* matter, its rows of pixels.  Library calls that can raise are resolved  *)
(* by a nondeterministic outcome.                                          *)
(***************************************************************************)
EXTENDS Integers, Sequences, FiniteSets, TLC

\* ------------------------------------------------------------------ bounds
\* Largest number of pixels (width * height) of an input image.
MaxPixels == 4

\* ------------------------------------------------------- program constants
INPUT_SIZE == 1024

MODEL_PATH_V2 == <<"models", "/", "model_q4f16", ".", "onnx">>
MODEL_PATH == <<"models", "/", "model", ".", "pth">>
MODEL_NAME == "briaai/RMBG-1.4"

\* ------------------------------------------------------------ path helpers
None == <<>>

Max(S) == CHOOSE x \in S : \A y \in S : y <= x

\* str.rfind over tokens: the last index holding tok, 0 when there is none.
rfind(p, tok) ==
    LET S == {i \in 1..Len(p) : p[i] = tok}
    IN  IF S = {} THEN 0 ELSE Max(S)

\* os.path.splitext: <<root, ext>>; a dot that only leads the file name is
\* no extension separator.
splitext(p) ==
    LET sepIndex == rfind(p, "/")
        dotIndex == rfind(p, ".")
    IN  IF dotIndex > sepIndex
           /\ \E k \in (sepIndex + 1)..(dotIndex - 1) : p[k] # "."
        THEN <<SubSeq(p, 1, dotIndex - 1), SubSeq(p, dotIndex, Len(p))>>
        ELSE <<p, <<>>>>

RECURSIVE rstrip(_)
rstrip(p) ==
    IF p # <<>> /\ p[Len(p)] = "/" THEN rstrip(SubSeq(p, 1, Len(p) - 1)) ELSE p

\* os.path.dirname: everything before the last "/", trailing slashes
\* stripped unless the head is slashes only.
dirname(p) ==
    LET head == SubSeq(p, 1, rfind(p, "/"))
    IN  IF head # <<>> /\ \E k \in 1..Len(head) : head[k] # "/"
        THEN rstrip(head) ELSE head

startswith_http(p) == p # <<>> /\ p[1] \in {"http:", "https:"}

\* ----------------------------------------------------------- image helpers
NoImage == [size |-> <<0, 0>>, mode |-> "none", px |-> <<>>]

\* The sizes (width, height) an input image can have.
Sizes == {s \in (1..MaxPixels) \X (1..MaxPixels) : s[1] * s[2] <= MaxPixels}

\* Image.resize(size, LANCZOS): an image of the requested size.
resize(im, size) == [im EXCEPT !.size = size]

\* np.array(img): shape (height, width[, channels]).
array_shape(im) ==
    IF im.mode = "L"
    THEN <<im.size[2], im.size[1]>>
    ELSE <<im.size[2], im.size[1], IF im.mode = "RGBA" THEN 4 ELSE 3>>

\* ndarray.transpose(2, 0, 1) and np.expand_dims(axis=0).
transpose201(shape) == <<shape[3], shape[1], shape[2]>>
expand_dims0(shape) == <<1>> \o shape

\* ndarray.squeeze(): every axis of length 1 is dropped.
squeeze(shape) == SelectSeq(shape, LAMBDA d : d # 1)

\* Image.fromarray of a 2-D uint8 array: mode L, size (columns, rows).
fromarray(shape) == [size |-> <<shape[2], shape[1]>>, mode |-> "L", px |-> <<>>]

\* RMBG2._preprocess: the tensor handed to the model, NCHW.
_preprocess(im) ==
    LET img_resized == resize([im EXCEPT !.mode = "RGB"], <<INPUT_SIZE, INPUT_SIZE>>)
    IN  expand_dims0(transpose201(array_shape(img_resized)))

\* The model's output for an input tensor <<n, c, h, w>>: one channel of the
\* same height and width.
model_output_shape(in_shape) == <<in_shape[1], 1, in_shape[3], in_shape[4]>>

\* RMBG2._postprocess: the mask resized back to the original size.
\* (Faulty variant: passes (height, width) where PIL wants (width, height).)
postprocess_swapped(shape, original_size) ==
    resize(fromarray(squeeze(shape)), <<original_size[2], original_size[1]>>)

_postprocess(shape, original_size) ==
    resize(fromarray(squeeze(shape)), original_size)

\* --------------------------------------------------- rmbg_inference pixels
\* The values a pixel of the mask the pipeline returns is drawn from.
PixelVals == {0, 90, 255}

\* The thresholds tried, in hundredths: 0.0, 0.35 (the default) and 1.0.
Thresholds == {0, 35, 100}

\* Every mode-L image of a size; px[r][c] is row r, column c.
Masks(size) ==
    {[size |-> size, mode |-> "L", px |-> px] :
        px \in [1..size[2] -> [1..size[1] -> PixelVals]]}

\* np.where(...) and the filters map a 2-D array to one of the same shape
\* (built as a sequence of sequences: \o <<>> leaves the value unchanged).
array2d(f) ==
    [r \in DOMAIN f |-> f[r] \o <<>>] \o <<>>

\* apply_threshold, threshold in hundredths:
\* mask_array >= threshold * 255 selects 255, everything else 0.
\* (Faulty variant: strict comparison.)
apply_threshold_strict(m, threshold) ==
    [size |-> m.size, mode |-> "L",
     px |-> array2d([r \in DOMAIN m.px |-> [c \in DOMAIN m.px[r] |->
                IF 100 * m.px[r][c] > threshold * 255 THEN 255 ELSE 0]])]

apply_threshold(m, threshold) ==
    [size |-> m.size, mode |-> "L",
     px |-> array2d([r \in DOMAIN m.px |-> [c \in DOMAIN m.px[r] |->
                IF 100 * m.px[r][c] >= threshold * 255 THEN 255 ELSE 0]])]

\* scipy.ndimage "reflect" boundary (d c b a | a b c d | d c b a): the index
\* in 1..n that position i stands for.
reflect(i, n) ==
    LET k == (i - 1) % (2 * n)
    IN  IF k >= n THEN 2 * n - k ELSE k + 1

\* The C cast of a double to uint8.  A value out of range is undefined
\* behaviour: the builds in use keep the low byte of a positive value, and
\* turn a negative one into its low byte ("wrap", x86) or 0 ("zero", ARM).
to_uint8(v, conv) ==
    IF v < 0 /\ conv = "zero" THEN 0 ELSE v % 256

\* scipy.ndimage.correlate1d along an axis (0: down the rows, 1: along a
\* row) with weights w for the offsets -2..2, the sum divided by scale and
\* stored as uint8.
correlate1d(a, w, axis, scale, conv) ==
    LET rows == Len(a)
        cols == Len(a[1])
        at(r, c, o) == IF axis = 0 THEN a[reflect(r + o, rows)][c]
                       ELSE a[r][reflect(c + o, cols)]
    IN  array2d([r \in DOMAIN a |-> [c \in DOMAIN a[r] |->
            to_uint8((w[1] * at(r, c, -2) + w[2] * at(r, c, -1) + w[3] * at(r, c, 0)
                      + w[4] * at(r, c, 1) + w[5] * at(r, c, 2)) \div scale, conv)]])

\* scipy.ndimage.sobel on a uint8 array: the derivative along axis, then the
\* smoothing along the other axis, each stored as uint8.
sobel(a, axis, conv) ==
    correlate1d(correlate1d(a, <<0, -1, 0, 1, 0>>, axis, 1, conv),
                <<0, 1, 2, 1, 0>>, 1 - axis, 1, conv)

\* The weights of gaussian_filter(sigma=0.5) (radius int(4 * 0.5 + 0.5) = 2):
\* exp(-2 x^2) normalised to sum 1, in units of 1e-6.
GaussScale == 1000000
GaussWeights == <<264, 106451, 786570, 106451, 264>>

\* scipy.ndimage.gaussian_filter(sigma=0.5) on a uint8 array: one pass per
\* axis, each stored as uint8.
gaussian_filter(a) ==
    correlate1d(correlate1d(a, GaussWeights, 0, GaussScale, "wrap"),
                GaussWeights, 1, GaussScale, "wrap")

\* floor(sqrt(num / den)) for 0 <= num <= 255 * 255 * den, by bisection
\* of lo..hi.
RECURSIVE isqrt_between(_, _, _, _)
isqrt_between(num, den, lo, hi) ==
    IF lo = hi THEN lo
    ELSE LET mid == (lo + hi + 1) \div 2
         IN  IF mid * mid * den <= num
             THEN isqrt_between(num, den, mid, hi)
             ELSE isqrt_between(num, den, lo, mid - 1)

isqrt_ratio(num, den) == isqrt_between(num, den, 0, 255)

\* Lines 145-151: sobel_x**2 + sobel_y**2 in uint8, its square root, and the
\* map scaled so that its maximum is 255.  The quotient is taken exactly
\* (numpy rounds it to float16).  When the maximum is 0 the division yields
\* NaN, whose cast to uint8 is 0 on the builds in use.
edge_sq(a, conv) ==
    LET sobel_x == sobel(a, 0, conv)
        sobel_y == sobel(a, 1, conv)
    IN  array2d([r \in DOMAIN a |-> [c \in DOMAIN a[r] |->
            (((sobel_x[r][c] * sobel_x[r][c]) % 256)
             + ((sobel_y[r][c] * sobel_y[r][c]) % 256)) % 256]])

array_max(a) == Max({a[r][c] : r \in DOMAIN a, c \in DOMAIN a[1]})

edge_mask(a, conv) ==
    LET sq == edge_sq(a, conv)
        mx == array_max(sq)
    IN  array2d([r \in DOMAIN a |-> [c \in DOMAIN a[r] |->
            IF mx = 0 THEN 0 ELSE isqrt_ratio(255 * 255 * sq[r][c], mx)]])

\* (Faulty variant of enhance_mask: the color_aware step stops after the
\* gaussian filter, without the np.where of line 162.)
enhance_mask_smoothed(m, edge_enhancement, color_aware, conv) ==
    LET a1 == IF edge_enhancement
              THEN LET e == edge_mask(m.px, conv)
                   IN  array2d([r \in DOMAIN m.px |-> [c \in DOMAIN m.px[r] |->
                           IF e[r][c] > m.px[r][c] THEN e[r][c] ELSE m.px[r][c]]])
              ELSE m.px
        s1 == IF edge_enhancement THEN <<"edge_enhancement">> ELSE <<>>
    IN  IF color_aware /\ ~edge_enhancement
        THEN [raised |-> "UnboundLocalError", mask |-> m, steps |-> s1]
        ELSE IF color_aware
        THEN [raised |-> "none",
              mask |-> [m EXCEPT !.px = gaussian_filter(a1)],
              steps |-> Append(s1, "color_aware")]
        ELSE [raised |-> "none", mask |-> [m EXCEPT !.px = a1], steps |-> s1]

\* enhance_mask: [raised, mask, steps].  ndimage is imported inside the
\* edge_enhancement branch only, so it is an unbound local when
\* color_aware runs without it.
enhance_mask(m, edge_enhancement, color_aware, conv) ==
    LET a1 == IF edge_enhancement
              THEN LET e == edge_mask(m.px, conv)
                   IN  array2d([r \in DOMAIN m.px |-> [c \in DOMAIN m.px[r] |->
                           IF e[r][c] > m.px[r][c] THEN e[r][c] ELSE m.px[r][c]]])
              ELSE m.px
        s1 == IF edge_enhancement THEN <<"edge_enhancement">> ELSE <<>>
    IN  IF color_aware /\ ~edge_enhancement
        THEN [raised |-> "UnboundLocalError", mask |-> m, steps |-> s1]
        ELSE IF color_aware
        THEN LET g == gaussian_filter(a1)
             IN  [raised |-> "none",
                  mask |-> [m EXCEPT !.px = array2d([r \in DOMAIN g |-> [c \in DOMAIN g[r] |->
                                        IF g[r][c] > 127 THEN 255 ELSE 0]])],
                  steps |-> Append(s1, "color_aware")]
        ELSE [raised |-> "none", mask |-> [m EXCEPT !.px = a1], steps |-> s1]

\* PIL's Image.save without a format: the format registered for the file
\* name's extension, "unknown" (ValueError) when there is none.
format_of(path) ==
    LET ext == splitext(path)[2]
    IN  IF ext = <<".", "png">> THEN "PNG"
        ELSE IF ext = <<".", "jpg">> THEN "JPEG"
        ELSE "unknown"

\* ------------------------------------------------------------------- state
VARIABLES
    entry,        \* the entry point this process runs
    argv,         \* its arguments
    pc,           \* position in the program
    call,         \* arguments of the backend call in progress
    files,        \* paths of the files that exist
    dirs,         \* paths of the directories that exist
    writes,       \* image files written so far, in order
    img,          \* the loaded input image
    orig_size,    \* (orig_width, orig_height) of the input image
    tensor,       \* shape of the tensor handed to the ONNX model
    mask,         \* the current mask
    output,       \* the RGBA composite
    stages,       \* the stages attempted so far and how each ended
    exc,          \* the exception in flight, "none" when there is none
    printed,      \* messages printed so far
    exit_status,  \* the process's exit status, meaningful once pc = "exited"
    ret,          \* what the functions that have ended returned
    model,        \* rmbg_inference: the model load_model returned
    pipe,         \* rmbg_inference: the pipeline create_pipeline returned
    applied       \* rmbg_inference: the post-processing steps applied

vars == <<entry, argv, pc, call, files, dirs, writes, img, orig_size, tensor,
          mask, output, stages, exc, printed, exit_status, ret, model, pipe,
          applied>>

\* The state only rmbg_inference.py uses.
v1_vars == <<model, pipe, applied>>
\* The state only rmbg2_inference.py uses.
v2_vars == <<orig_size, tensor, output>>

\* ------------------------------------------------------------- input space
LocalImage == <<"in", ".", "jpg">>
UrlImage == <<"http:", "/", "/", "h", "/", "in", ".", "jpg">>
CustomModel == <<"m", ".", "onnx">>
OutputPaths == { <<"out", "/", "a", ".", "png">>,
                 <<"a">>,
                 <<"o", ".", "d", "/", "a">> }

\* test_rmbg2.py: paths next to the script.
test_image == <<"test_photo", ".", "jpg">>
output_image == <<"test_photo_nobg_rmbg2", ".", "png">>

NoCall == [caller |-> "none", image_path |-> None, output_path |-> None,
           model_path |-> None]
Unset == [status |-> "unset", value |-> <<>>]
Returned(v) == [status |-> "returned", value |-> v]
Raised(e) == [status |-> "raised", value |-> e]
NoRet == [process_image |-> Unset, test_rmbg2_onnx |-> Unset,
          compare_with_original |-> Unset, inference |-> Unset]

Args2 == [input : {LocalImage, UrlImage}, output : OutputPaths \cup {None},
          model : {None, CustomModel}]

\* The model file a call of process_image(model_path=m) loads.
model_file(m) == IF m = None THEN MODEL_PATH_V2 ELSE m

\* Directories that may or may not exist before the run.
MaybeDirs(out) == IF dirname(out) = None THEN {} ELSE {dirname(out)}

Start(e, a, f, d) ==
    /\ entry = e
    /\ argv = a
    /\ files = f
    /\ dirs = d
    /\ pc = "start"
    /\ call = NoCall
    /\ writes = <<>>
    /\ img = NoImage
    /\ orig_size = <<0, 0>>
    /\ tensor = <<>>
    /\ mask = NoImage
    /\ output = NoImage
    /\ stages = <<>>
    /\ exc = "none"
    /\ printed = <<>>
    /\ exit_status = 0
    /\ ret = NoRet
    /\ model = "none"
    /\ pipe = "none"
    /\ applied = <<>>

\* Command line of rmbg2_inference.py.
Init_rmbg2_main ==
    \E a \in Args2 :
    \E f \in SUBSET {model_file(a.model), LocalImage} :
    \E d \in SUBSET MaybeDirs(a.output) :
        Start("rmbg2_main", a, f, d)

\* process_image called as a library function.
Init_process_image ==
    \E a \in Args2 :
    \E f \in SUBSET {model_file(a.model), LocalImage} :
    \E d \in SUBSET MaybeDirs(a.output) :
        Start("process_image", a, f, d)

\* Command line of rmbg_inference.py.
Args1 == [input : {LocalImage, UrlImage},
          output : {<<"m", ".", "png">>, <<"m", ".", "jpg">>, <<"m">>},
          threshold : Thresholds,
          edge_enhancement : {"true", "false"},
          color_aware : {"True", "false"}]

Init_rmbg_main ==
    \E a \in Args1 :
    \E f \in SUBSET ({MODEL_PATH} \cup (IF a.input = LocalImage THEN {LocalImage} ELSE {})) :
        Start("rmbg_main", a, f, {})

\* python test_rmbg2.py (it takes no arguments).
Init_test_rmbg2 ==
    \E f \in SUBSET {MODEL_PATH_V2, MODEL_PATH, test_image} :
        Start("test_rmbg2", <<>>, f, {})

\* Command line of test_rmbg.py, the threshold left at its default 0.35.
Args_test_rmbg == [input : {LocalImage, UrlImage},
                   output : {None, <<"o", ".", "png">>, <<"o", ".", "jpg">>, <<"o">>},
                   threshold : {35},
                   edge_enhancement : {"true", "false"},
                   color_aware : {"true", "false"}]

Init_test_rmbg ==
    \E a \in Args_test_rmbg :
    \E f \in SUBSET ({MODEL_PATH} \cup (IF a.input = LocalImage THEN {LocalImage} ELSE {})) :
        Start("test_rmbg", a, f, {})

Init == \/ Init_rmbg2_main
        \/ Init_process_image
        \/ Init_rmbg_main
        \/ Init_test_rmbg2
        \/ Init_test_rmbg

\* --------------------------------------------------------------- utilities
Stage(name, ok) == [stage |-> name, ok |-> ok]

\* A printed line: its fixed text and the exception it formats, if any.
Msg(text, e) == [text |-> text, e |-> e]

Written(path, im, fmt) ==
    [path |-> path, mode |-> im.mode, format |-> fmt, size |-> im.size]

\* A save that raises may already have created the file.
AfterFailedSave(path) == {files, files \cup {path}}

\* The size and mode of the image a path holds: those it was written with
\* in this run, any otherwise.
SizesOf(path, ws) ==
    IF \E i \in DOMAIN ws : ws[i].path = path
    THEN {ws[Max({i \in DOMAIN ws : ws[i].path = path})].size}
    ELSE Sizes

ModesOf(path, ws) ==
    IF \E i \in DOMAIN ws : ws[i].path = path
    THEN {ws[Max({i \in DOMAIN ws : ws[i].path = path})].mode}
    ELSE {"RGB", "RGBA", "L"}

\* ------------------------------------------------- rmbg2_inference.py main
main2 ==
    /\ pc = "start"
    /\ entry = "rmbg2_main"
    /\ call' = [caller |-> "main",
                image_path |-> argv.input,
                output_path |-> IF argv.output = None
                                THEN splitext(argv.input)[1] \o <<"_nobg", ".", "png">>
                                ELSE argv.output,
                model_path |-> argv.model]
    /\ pc' = "RMBG2_init"
    /\ UNCHANGED <<entry, argv, files, dirs, writes, img, orig_size, tensor,
                   mask, output, stages, exc, printed, exit_status, ret>>
    /\ UNCHANGED v1_vars

\* A direct call process_image(image_path, output_path, model_path=...).
call_process_image ==
    /\ pc = "start"
    /\ entry = "process_image"
    /\ call' = [caller |-> "api", image_path |-> argv.input,
                output_path |-> argv.output, model_path |-> argv.model]
    /\ pc' = "RMBG2_init"
    /\ UNCHANGED <<entry, argv, files, dirs, writes, img, orig_size, tensor,
                   mask, output, stages, exc, printed, exit_status, ret>>
    /\ UNCHANGED v1_vars

\* ------------------------------------------------------------ process_image
\* RMBG2.__init__: the ONNX session is created, or the error is printed and
\* raised again.
RMBG2_init ==
    /\ pc = "RMBG2_init"
    /\ \E ok \in BOOLEAN :
        /\ ok => model_file(call.model_path) \in files
        /\ stages' = Append(stages, Stage("model_load", ok))
        /\ IF ok
           THEN /\ printed' = Append(printed, Msg("Model loaded successfully", ""))
                /\ exc' = exc
                /\ pc' = "load_image"
           ELSE /\ printed' = Append(printed, Msg("Error initializing ONNX model", "OrtError"))
                /\ exc' = "OrtError"
                /\ pc' = "process_image_except"
    /\ UNCHANGED <<entry, argv, call, files, dirs, writes, img, orig_size,
                   tensor, mask, output, exit_status, ret>>
    /\ UNCHANGED v1_vars

\* Lines 137-157: the image is downloaded or opened, an RGBA image is
\* flattened onto white, and the original size is read.
load_image ==
    /\ pc = "load_image"
    /\ \E ok \in BOOLEAN, size \in SizesOf(call.image_path, writes),
          mode \in ModesOf(call.image_path, writes) :
        /\ (ok /\ ~startswith_http(call.image_path)) => call.image_path \in files
        /\ stages' = Append(stages, Stage("image_load", ok))
        /\ IF ok
           THEN /\ img' = [size |-> size,
                           mode |-> IF mode = "RGBA" THEN "RGB" ELSE mode,
                           px |-> <<>>]
                /\ orig_size' = size
                /\ printed' = Append(printed, Msg("Processing image of size", ""))
                /\ exc' = exc
                /\ pc' = "predict"
           ELSE /\ img' = img
                /\ orig_size' = orig_size
                /\ printed' = IF startswith_http(call.image_path)
                              THEN Append(printed, Msg("Error downloading image", "RequestError"))
                              ELSE printed
                /\ exc' = IF startswith_http(call.image_path) THEN "RequestError"
                          ELSE IF call.image_path \notin files THEN "FileNotFoundError"
                          ELSE "UnidentifiedImageError"
                /\ pc' = "process_image_except"
    /\ UNCHANGED <<entry, argv, call, files, dirs, writes, tensor, mask,
                   output, exit_status, ret>>
    /\ UNCHANGED v1_vars

\* RMBG2.predict: preprocess, forward pass, postprocess.
\* (Faulty variant: a failed forward pass is replaced by an opaque mask.)
predict_fallback_mask ==
    /\ pc = "predict"
    /\ tensor' = _preprocess(img)
    /\ \E ok \in BOOLEAN :
        /\ stages' = Append(stages, Stage("forward", ok))
        /\ mask' = [size |-> img.size, mode |-> "L", px |-> <<>>]
        /\ printed' = Append(printed, IF ok THEN Msg("Inference time", "")
                                      ELSE Msg("Inference error", "OrtError"))
        /\ pc' = "composite"
    /\ UNCHANGED <<entry, argv, call, files, dirs, writes, img, orig_size,
                   output, exc, exit_status, ret>>
    /\ UNCHANGED v1_vars

predict ==
    /\ pc = "predict"
    /\ tensor' = _preprocess(img)
    /\ \E ok \in BOOLEAN :
        /\ stages' = Append(stages, Stage("forward", ok))
        /\ IF ok
           THEN /\ mask' = _postprocess(model_output_shape(tensor'), img.size)
                /\ printed' = Append(printed, Msg("Inference time", ""))
                /\ exc' = exc
                /\ pc' = "composite"
           ELSE /\ mask' = mask
                /\ printed' = Append(printed, Msg("Inference error", "OrtError"))
                /\ exc' = "OrtError"
                /\ pc' = "process_image_except"
    /\ UNCHANGED <<entry, argv, call, files, dirs, writes, img, orig_size,
                   output, exit_status, ret>>
    /\ UNCHANGED v1_vars

\* Lines 162-164: the transparent canvas and the paste through the mask;
\* paste raises when the mask's size is not the image's.
composite ==
    /\ pc = "composite"
    /\ LET ok == mask.size = img.size
       IN  /\ stages' = Append(stages, Stage("composite", ok))
           /\ output' = IF ok THEN [size |-> img.size, mode |-> "RGBA", px |-> <<>>]
                        ELSE output
           /\ exc' = IF ok THEN exc ELSE "ValueError"
           /\ pc' = IF ~ok THEN "process_image_except"
                    ELSE IF call.output_path # None THEN "makedirs"
                    ELSE "process_image_return"
    /\ UNCHANGED <<entry, argv, call, files, dirs, writes, img, orig_size,
                   tensor, mask, printed, exit_status, ret>>
    /\ UNCHANGED v1_vars

\* Lines 168-170: the output directory is created when it is missing.
makedirs ==
    /\ pc = "makedirs"
    /\ LET d == dirname(call.output_path)
       IN  IF d # None /\ d \notin dirs
           THEN \E ok \in BOOLEAN :
                /\ stages' = Append(stages, Stage("makedirs", ok))
                /\ dirs' = IF ok THEN dirs \cup {d} ELSE dirs
                /\ exc' = IF ok THEN exc ELSE "OSError"
                /\ pc' = IF ok THEN "save_output" ELSE "process_image_except"
           ELSE /\ pc' = "save_output"
                /\ UNCHANGED <<stages, dirs, exc>>
    /\ UNCHANGED <<entry, argv, call, files, writes, img, orig_size, tensor,
                   mask, output, printed, exit_status, ret>>
    /\ UNCHANGED v1_vars

\* Line 171-172: output.save(output_path, format='PNG').
save_output ==
    /\ pc = "save_output"
    /\ \E ok \in BOOLEAN :
        /\ stages' = Append(stages, Stage("save_output", ok))
        /\ IF ok
           THEN /\ files' = files \cup {call.output_path}
                /\ writes' = Append(writes, Written(call.output_path, output, "PNG"))
                /\ printed' = Append(printed, Msg("Saved output to", ""))
                /\ exc' = exc
                /\ pc' = "save_mask"
           ELSE /\ files' \in AfterFailedSave(call.output_path)
                /\ writes' = writes
                /\ printed' = printed
                /\ exc' = "OSError"
                /\ pc' = "process_image_except"
    /\ UNCHANGED <<entry, argv, call, dirs, img, orig_size, tensor, mask,
                   output, exit_status, ret>>
    /\ UNCHANGED v1_vars

\* Lines 174-177: the mask goes to <root of output_path>_mask.png.
\* (Faulty variant: ".png" replaced by "_mask.png", as line 52 of
\* test_rmbg2.py spells the path.)
mask_path_by_replace(output_path) ==
    IF Len(output_path) >= 2 /\ SubSeq(output_path, Len(output_path) - 1,
                                       Len(output_path)) = <<".", "png">>
    THEN SubSeq(output_path, 1, Len(output_path) - 2) \o <<"_mask", ".", "png">>
    ELSE output_path

mask_path_of(output_path) == splitext(output_path)[1] \o <<"_mask", ".", "png">>

\* (Faulty variant: the mask is not written.)
save_mask_skipped ==
    /\ pc = "save_mask"
    /\ stages' = Append(stages, Stage("save_mask", TRUE))
    /\ pc' = "process_image_return"
    /\ UNCHANGED <<entry, argv, call, files, dirs, writes, img, orig_size,
                   tensor, mask, output, exc, printed, exit_status, ret>>
    /\ UNCHANGED v1_vars

save_mask ==
    /\ pc = "save_mask"
    /\ \E ok \in BOOLEAN :
        /\ stages' = Append(stages, Stage("save_mask", ok))
        /\ IF ok
           THEN /\ files' = files \cup {mask_path_of(call.output_path)}
                /\ writes' = Append(writes,
                                Written(mask_path_of(call.output_path), mask, "PNG"))
                /\ printed' = Append(printed, Msg("Saved mask to", ""))
                /\ exc' = exc
                /\ pc' = "process_image_return"
           ELSE /\ files' \in AfterFailedSave(mask_path_of(call.output_path))
                /\ writes' = writes
                /\ printed' = printed
                /\ exc' = "OSError"
                /\ pc' = "process_image_except"
    /\ UNCHANGED <<entry, argv, call, dirs, img, orig_size, tensor, mask,
                   output, exit_status, ret>>
    /\ UNCHANGED v1_vars

\* Line 179: return output, mask.
process_image_return ==
    /\ pc = "process_image_return"
    /\ ret' = [ret EXCEPT !.process_image = Returned(<<output, mask>>)]
    /\ pc' = "process_image_returned"
    /\ UNCHANGED <<entry, argv, call, files, dirs, writes, img, orig_size,
                   tensor, mask, output, stages, exc, printed, exit_status>>
    /\ UNCHANGED v1_vars

\* Lines 180-182: the error is printed and raised again.
process_image_except ==
    /\ pc = "process_image_except"
    /\ printed' = Append(printed, Msg("Error processing image", exc))
    /\ ret' = [ret EXCEPT !.process_image = Raised(exc)]
    /\ pc' = "process_image_raised"
    /\ UNCHANGED <<entry, argv, call, files, dirs, writes, img, orig_size,
                   tensor, mask, output, stages, exc, exit_status>>
    /\ UNCHANGED v1_vars

\* rmbg2_inference.py main, lines 194-199.
\* (Faulty variant: the handler forgets the exit status.)
main2_end_status0 ==
    /\ pc \in {"process_image_returned", "process_image_raised"}
    /\ call.caller = "main"
    /\ printed' = Append(printed, IF pc = "process_image_returned"
                                  THEN Msg("Background removal completed successfully", "")
                                  ELSE Msg("Error", exc))
    /\ exit_status' = 0
    /\ exc' = "none"
    /\ pc' = "exited"
    /\ UNCHANGED <<entry, argv, call, files, dirs, writes, img, orig_size,
                   tensor, mask, output, stages, ret>>
    /\ UNCHANGED v1_vars

main2_end ==
    /\ pc \in {"process_image_returned", "process_image_raised"}
    /\ call.caller = "main"
    /\ printed' = Append(printed, IF pc = "process_image_returned"
                                  THEN Msg("Background removal completed successfully", "")
                                  ELSE Msg("Error", exc))
    /\ exit_status' = IF pc = "process_image_returned" THEN 0 ELSE 1
    /\ exc' = "none"
    /\ pc' = "exited"
    /\ UNCHANGED <<entry, argv, call, files, dirs, writes, img, orig_size,
                   tensor, mask, output, stages, ret>>
    /\ UNCHANGED v1_vars

\* -------------------------------------------------- rmbg_inference.py main
\* Lines 225-232: the two toggles are true exactly for the word "true" in
\* any case.
lower(w) == IF w = "True" THEN "true" ELSE w

main1 ==
    /\ pc = "start"
    /\ entry = "rmbg_main"
    /\ call' = [caller |-> "main",
                image_path |-> argv.input,
                output_path |-> argv.output,
                threshold |-> argv.threshold,
                edge_enhancement |-> lower(argv.edge_enhancement) = "true",
                color_aware |-> lower(argv.color_aware) = "true"]
    /\ pc' = "create_pipeline"
    /\ UNCHANGED <<entry, argv, files, dirs, writes, img, mask, stages, exc,
                   printed, exit_status, ret>>
    /\ UNCHANGED <<v1_vars, v2_vars>>

\* ---------------------------------------------------------- create_pipeline
\* check_model_exists as create_pipeline calls it (line 86): sys.exit(1)
\* when the model file is missing.  SystemExit is no Exception, so no
\* handler on the way catches it.
check_model_exists ==
    /\ pc = "create_pipeline"
    /\ LET ok == MODEL_PATH \in files
       IN  /\ stages' = Append(stages, Stage("model_check", ok))
           /\ printed' = IF ok THEN printed
                         ELSE Append(printed, Msg("Error: Model file not found", ""))
           /\ exit_status' = IF ok THEN exit_status ELSE 1
           /\ pc' = IF ok THEN "load_model" ELSE "exited"
    /\ UNCHANGED <<entry, argv, call, files, dirs, writes, img, mask, exc, ret>>
    /\ UNCHANGED <<v1_vars, v2_vars>>

\* load_model: the file is checked again, the weights are loaded and moved
\* to the device; any exception is printed and ends the process.
load_model ==
    /\ pc = "load_model"
    /\ \E ok \in BOOLEAN, has_pipe \in BOOLEAN :
        /\ ok => MODEL_PATH \in files
        /\ ~ok => ~has_pipe
        /\ stages' = Append(stages, Stage("model_load", ok))
        /\ model' = IF ~ok THEN model
                    ELSE IF has_pipe THEN "model_with_pipe" ELSE "model"
        /\ printed' = IF ok THEN printed
                      ELSE IF MODEL_PATH \notin files
                      THEN Append(printed, Msg("Error: Model file not found", ""))
                      ELSE Append(printed, Msg("Error loading RMBG-V1 model", "LoadError"))
        /\ exit_status' = IF ok THEN exit_status ELSE 1
        /\ pc' = IF ok THEN "standard_pipeline" ELSE "exited"
    /\ UNCHANGED <<entry, argv, call, files, dirs, writes, img, mask, exc,
                   ret, pipe, applied>>
    /\ UNCHANGED v2_vars

\* Lines 91-108: the standard pipeline; when it fails, the model's own
\* pipe if it has one, else on to the hub pipeline.
standard_pipeline ==
    /\ pc = "standard_pipeline"
    /\ \E ok \in BOOLEAN :
        IF ok
        THEN /\ stages' = Append(stages, Stage("standard_pipeline", TRUE))
             /\ pipe' = "standard"
             /\ pc' = "preprocess_image"
             /\ UNCHANGED <<exc, printed>>
        ELSE IF model = "model_with_pipe"
        THEN /\ stages' = stages \o <<Stage("standard_pipeline", FALSE),
                                      Stage("builtin_pipe", TRUE)>>
             /\ printed' = printed \o
                    <<Msg("Standard pipeline creation failed, trying alternative approach",
                          "StandardPipelineError"),
                      Msg("Using model's built-in pipeline function", "")>>
             /\ pipe' = "builtin"
             /\ exc' = exc
             /\ pc' = "preprocess_image"
        ELSE /\ stages' = Append(stages, Stage("standard_pipeline", FALSE))
             /\ printed' = Append(printed,
                    Msg("Standard pipeline creation failed, trying alternative approach",
                        "StandardPipelineError"))
             /\ pipe' = pipe
             /\ exc' = "StandardPipelineError"
             /\ pc' = "hub_pipeline"
    /\ UNCHANGED <<entry, argv, call, files, dirs, writes, img, mask,
                   exit_status, ret, model, applied>>
    /\ UNCHANGED v2_vars

\* Lines 110-120: the pipeline straight from the hub; when that fails too,
\* the first error is raised again, printed by the outer handler, and the
\* process exits.
\* (Faulty variant: the fallback's own error is the one raised.)
hub_pipeline_raises_e2 ==
    /\ pc = "hub_pipeline"
    /\ \E ok \in BOOLEAN :
        /\ stages' = Append(stages, Stage("hub_pipeline", ok))
        /\ IF ok
           THEN /\ pipe' = "hub"
                /\ exc' = "none"
                /\ pc' = "preprocess_image"
                /\ UNCHANGED <<printed, exit_status>>
           ELSE /\ pipe' = pipe
                /\ printed' = printed \o
                       <<Msg("Failed to create pipeline with fallback method",
                             "HubPipelineError"),
                         Msg("Error creating pipeline", "HubPipelineError")>>
                /\ exc' = "HubPipelineError"
                /\ exit_status' = 1
                /\ pc' = "exited"
    /\ UNCHANGED <<entry, argv, call, files, dirs, writes, img, mask, ret,
                   model, applied>>
    /\ UNCHANGED v2_vars

hub_pipeline ==
    /\ pc = "hub_pipeline"
    /\ \E ok \in BOOLEAN :
        /\ stages' = Append(stages, Stage("hub_pipeline", ok))
        /\ IF ok
           THEN /\ pipe' = "hub"
                /\ exc' = "none"
                /\ pc' = "preprocess_image"
                /\ UNCHANGED <<printed, exit_status>>
           ELSE /\ pipe' = pipe
                /\ printed' = printed \o
                       <<Msg("Failed to create pipeline with fallback method",
                             "HubPipelineError"),
                         Msg("Error creating pipeline", exc)>>
                /\ exc' = exc
                /\ exit_status' = 1
                /\ pc' = "exited"
    /\ UNCHANGED <<entry, argv, call, files, dirs, writes, img, mask, ret,
                   model, applied>>
    /\ UNCHANGED v2_vars

\* ---------------------------------------------------------------- inference
\* preprocess_image: the image is fetched or opened and converted to RGB.
preprocess_image ==
    /\ pc = "preprocess_image"
    /\ \E ok \in BOOLEAN, size \in Sizes :
        /\ (ok /\ ~startswith_http(call.image_path)) => call.image_path \in files
        /\ ~ok => size = <<1, 1>>
        /\ stages' = Append(stages, Stage("image_load", ok))
        /\ img' = IF ok THEN [size |-> size, mode |-> "RGB", px |-> <<>>] ELSE img
        /\ exc' = IF ok THEN exc
                  ELSE IF startswith_http(call.image_path) THEN "RequestError"
                  ELSE IF call.image_path \notin files THEN "FileNotFoundError"
                  ELSE "UnidentifiedImageError"
        /\ pc' = IF ok THEN "pipe" ELSE "inference_except"
    /\ UNCHANGED <<entry, argv, call, files, dirs, writes, mask, printed,
                   exit_status, ret>>
    /\ UNCHANGED <<v1_vars, v2_vars>>

\* Line 192: mask = pipe(image, return_mask=True), a mask of the image's size.
\* (Faulty variant: the raw mask is saved as soon as the pipeline returns.)
run_pipe_saving ==
    /\ pc = "pipe"
    /\ \E m \in Masks(img.size) :
        /\ stages' = Append(stages, Stage("forward", TRUE))
        /\ mask' = m
        /\ files' = files \cup {call.output_path}
        /\ writes' = Append(writes, Written(call.output_path, m, "PNG"))
        /\ pc' = "apply_threshold"
    /\ UNCHANGED <<entry, argv, call, dirs, img, exc, printed, exit_status, ret>>
    /\ UNCHANGED <<v1_vars, v2_vars>>

run_pipe ==
    /\ pc = "pipe"
    /\ \E ok \in BOOLEAN, m \in Masks(img.size) :
        /\ ~ok => m = CHOOSE x \in Masks(img.size) : TRUE
        /\ stages' = Append(stages, Stage("forward", ok))
        /\ mask' = IF ok THEN m ELSE mask
        /\ exc' = IF ok THEN exc ELSE "PipelineError"
        /\ pc' = IF ok THEN "apply_threshold" ELSE "inference_except"
    /\ UNCHANGED <<entry, argv, call, files, dirs, writes, img, printed,
                   exit_status, ret>>
    /\ UNCHANGED <<v1_vars, v2_vars>>

\* Lines 195-196: the threshold, then enhance_mask only if a toggle is on.
inference_threshold ==
    /\ pc = "apply_threshold"
    /\ mask' = apply_threshold(mask, call.threshold)
    /\ stages' = Append(stages, Stage("threshold", TRUE))
    /\ pc' = IF call.edge_enhancement \/ call.color_aware
             THEN "enhance_mask" ELSE "save"
    /\ UNCHANGED <<entry, argv, call, files, dirs, writes, img, exc, printed,
                   exit_status, ret>>
    /\ UNCHANGED <<v1_vars, v2_vars>>

\* Line 197: mask = enhance_mask(mask, edge_enhancement, color_aware).
inference_enhance ==
    /\ pc = "enhance_mask"
    /\ \E conv \in {"wrap", "zero"} :
       \E r \in {enhance_mask(mask, call.edge_enhancement, call.color_aware, conv)} :
            /\ stages' = Append(stages, Stage("enhance", r.raised = "none"))
            /\ applied' = r.steps
            /\ mask' = r.mask
            /\ exc' = IF r.raised = "none" THEN exc ELSE r.raised
            /\ pc' = IF r.raised = "none" THEN "save" ELSE "inference_except"
    /\ UNCHANGED <<entry, argv, call, files, dirs, writes, img, printed,
                   exit_status, ret, model, pipe>>
    /\ UNCHANGED v2_vars

\* Lines 199-201: mask.save(output_path); the format comes from the file
\* name's extension, and an unknown one raises before any file is opened.
inference_save ==
    /\ pc = "save"
    /\ \E ok \in BOOLEAN :
        /\ ok => format_of(call.output_path) # "unknown"
        /\ stages' = Append(stages, Stage("save_mask", ok))
        /\ IF ok
           THEN /\ files' = files \cup {call.output_path}
                /\ writes' = Append(writes, Written(call.output_path, mask,
                                                    format_of(call.output_path)))
                /\ printed' = Append(printed, Msg("Mask saved to", ""))
                /\ exc' = exc
                /\ pc' = "inference_return"
           ELSE /\ files' \in (IF format_of(call.output_path) = "unknown"
                               THEN {files} ELSE AfterFailedSave(call.output_path))
                /\ writes' = writes
                /\ printed' = printed
                /\ exc' = IF format_of(call.output_path) = "unknown"
                          THEN "ValueError" ELSE "OSError"
                /\ pc' = "inference_except"
    /\ UNCHANGED <<entry, argv, call, dirs, img, mask, exit_status, ret>>
    /\ UNCHANGED <<v1_vars, v2_vars>>

\* Lines 203-207: return mask.
inference_return ==
    /\ pc = "inference_return"
    /\ ret' = [ret EXCEPT !.inference = Returned(mask)]
    /\ printed' = Append(printed, Msg("Inference completed in", ""))
    /\ pc' = "inference_returned"
    /\ UNCHANGED <<entry, argv, call, files, dirs, writes, img, mask, stages,
                   exc, exit_status>>
    /\ UNCHANGED <<v1_vars, v2_vars>>

\* Lines 209-211: the error is printed and the process exits with status 1.
inference_except ==
    /\ pc = "inference_except"
    /\ printed' = Append(printed, Msg("Error during inference", exc))
    /\ exit_status' = 1
    /\ pc' = "exited"
    /\ UNCHANGED <<entry, argv, call, files, dirs, writes, img, mask, stages,
                   exc, ret>>
    /\ UNCHANGED <<v1_vars, v2_vars>>

\* rmbg_inference.py main returns after inference: exit status 0.
main1_end ==
    /\ pc = "inference_returned"
    /\ call.caller = "main"
    /\ exit_status' = 0
    /\ pc' = "exited"
    /\ UNCHANGED <<entry, argv, call, files, dirs, writes, img, mask, stages,
                   exc, printed, ret>>
    /\ UNCHANGED <<v1_vars, v2_vars>>

\* --------------------------------------------------------- test_rmbg2.py
\* The names the module rmbg_inference defines (its functions, constants
\* and imports): what "from rmbg_inference import <name>" can find.
rmbg_inference_names ==
    {"check_model_exists", "load_model", "create_pipeline", "preprocess_image",
     "apply_threshold", "enhance_mask", "inference", "main",
     "MODEL_NAME", "MODEL_PATH",
     "sys", "os", "np", "torch", "F", "Image", "BytesIO", "requests", "Path",
     "ssl", "time", "base64", "argparse", "AutoModelForImageSegmentation",
     "AutoFeatureExtractor", "pipeline", "collections"}

\* test_rmbg2_onnx, lines 17-48: the test image is drawn and saved when it
\* is missing (outside the try), then process_image is called.
test_rmbg2_onnx ==
    /\ pc = "start"
    /\ entry = "test_rmbg2"
    /\ \E ok \in BOOLEAN :
        /\ (test_image \in files) => ok
        /\ IF ok
           THEN /\ files' = files \cup {test_image}
                /\ writes' = IF test_image \in files THEN writes
                             ELSE Append(writes,
                                    [path |-> test_image, mode |-> "RGB",
                                     format |-> "JPEG", size |-> <<512, 512>>])
                /\ call' = [caller |-> "test_rmbg2_onnx", image_path |-> test_image,
                            output_path |-> output_image, model_path |-> None]
                /\ pc' = "RMBG2_init"
                /\ UNCHANGED <<exc, printed, exit_status, ret>>
           ELSE /\ files' \in AfterFailedSave(test_image)
                /\ exc' = "OSError"
                /\ printed' = Append(printed, Msg("Traceback", "OSError"))
                /\ ret' = [ret EXCEPT !.test_rmbg2_onnx = Raised("OSError")]
                /\ exit_status' = 1
                /\ pc' = "exited"
                /\ UNCHANGED <<writes, call>>
    /\ UNCHANGED <<entry, argv, dirs, img, mask, stages>>
    /\ UNCHANGED <<v1_vars, v2_vars>>

\* Lines 45-56: True when process_image returned, False when it raised.
\* (Faulty variant: the handler reports success.)
test_rmbg2_onnx_end_true ==
    /\ pc \in {"process_image_returned", "process_image_raised"}
    /\ call.caller = "test_rmbg2_onnx"
    /\ printed' = Append(printed, Msg("Test completed successfully!", ""))
    /\ ret' = [ret EXCEPT !.test_rmbg2_onnx = Returned(TRUE)]
    /\ exc' = "none"
    /\ pc' = "compare_with_original"
    /\ UNCHANGED <<entry, argv, call, files, dirs, writes, img, mask, stages,
                   exit_status>>
    /\ UNCHANGED <<v1_vars, v2_vars>>

test_rmbg2_onnx_end ==
    /\ pc \in {"process_image_returned", "process_image_raised"}
    /\ call.caller = "test_rmbg2_onnx"
    /\ printed' = Append(printed, IF pc = "process_image_returned"
                                  THEN Msg("Test completed successfully!", "")
                                  ELSE Msg("Test failed with error", exc))
    /\ ret' = [ret EXCEPT !.test_rmbg2_onnx = Returned(pc = "process_image_returned")]
    /\ exc' = "none"
    /\ pc' = "compare_with_original"
    /\ UNCHANGED <<entry, argv, call, files, dirs, writes, img, mask, stages,
                   exit_status>>
    /\ UNCHANGED <<v1_vars, v2_vars>>

\* compare_with_original, lines 58-112.  The import of line 64 stands
\* before the try: rmbg_inference defines no process_image, so the
\* ImportError leaves the function and ends the process with a traceback
\* and status 1.  The try block (pc "compare_try") is never entered.
compare_with_original ==
    /\ pc = "compare_with_original"
    /\ IF "process_image" \in rmbg_inference_names
       THEN /\ pc' = "compare_try"
            /\ UNCHANGED <<exc, printed, exit_status, ret>>
       ELSE /\ exc' = "ImportError"
            /\ printed' = Append(printed, Msg("Traceback", "ImportError"))
            /\ ret' = [ret EXCEPT !.compare_with_original = Raised("ImportError")]
            /\ exit_status' = 1
            /\ pc' = "exited"
    /\ UNCHANGED <<entry, argv, call, files, dirs, writes, img, mask, stages>>
    /\ UNCHANGED <<v1_vars, v2_vars>>

\* ----------------------------------------------------------- test_rmbg.py
\* main, lines 68-94: the output path defaults to <input stem>_nobg_rmbg.png.
test_rmbg_main ==
    /\ pc = "start"
    /\ entry = "test_rmbg"
    /\ argv' = [argv EXCEPT !.output =
                    IF argv.output = None
                    THEN splitext(argv.input)[1] \o <<"_nobg_rmbg", ".", "png">>
                    ELSE argv.output]
    /\ pc' = "remove_background"
    /\ UNCHANGED <<entry, call, files, dirs, writes, img, mask, stages, exc,
                   printed, exit_status, ret>>
    /\ UNCHANGED <<v1_vars, v2_vars>>

\* remove_background, lines 30-41: check_model_exists (sys.exit(1) when the
\* model file is missing, which the handler of line 64 does not catch),
\* then inference is called with <output stem>_mask.png as its output.
remove_background ==
    /\ pc = "remove_background"
    /\ LET ok == MODEL_PATH \in files
       IN  /\ stages' = Append(stages, Stage("model_precheck", ok))
           /\ printed' = Append(printed,
                            IF ok THEN Msg("Processing image", "")
                            ELSE Msg("Error: Model file not found", ""))
           /\ exit_status' = IF ok THEN exit_status ELSE 1
           /\ call' = IF ~ok THEN call
                      ELSE [caller |-> "remove_background",
                            image_path |-> argv.input,
                            output_path |-> splitext(argv.output)[1]
                                            \o <<"_mask", ".", "png">>,
                            threshold |-> argv.threshold,
                            edge_enhancement |-> lower(argv.edge_enhancement) = "true",
                            color_aware |-> lower(argv.color_aware) = "true"]
           /\ pc' = IF ok THEN "create_pipeline" ELSE "exited"
    /\ UNCHANGED <<entry, argv, files, dirs, writes, img, mask, exc, ret>>
    /\ UNCHANGED <<v1_vars, v2_vars>>

\* Lines 44-52: the original and the mask are opened again (Image.open takes
\* no URL), the mask resized to the original if need be, and put in as the
\* alpha channel.
remove_background_putalpha ==
    /\ pc = "inference_returned"
    /\ call.caller = "remove_background"
    /\ \E ok \in BOOLEAN :
        /\ ok => /\ ~startswith_http(argv.input)
                 /\ argv.input \in files
                 /\ call.output_path \in files
        /\ stages' = Append(stages, Stage("putalpha", ok))
        /\ output' = IF ok THEN [size |-> img.size, mode |-> "RGBA", px |-> <<>>]
                      ELSE output
        /\ exc' = IF ok THEN exc
                  ELSE IF startswith_http(argv.input) \/ argv.input \notin files
                  THEN "FileNotFoundError"
                  ELSE "UnidentifiedImageError"
        /\ pc' = IF ok THEN "remove_background_save" ELSE "remove_background_except"
    /\ UNCHANGED <<entry, argv, call, files, dirs, writes, img, orig_size,
                   tensor, mask, printed, exit_status, ret>>
    /\ UNCHANGED v1_vars

\* Lines 55-56: original.save(output_path).  An RGBA image can be written
\* as PNG; an unknown extension raises ValueError before any file is
\* opened, JPEG refuses the mode with OSError.
remove_background_save ==
    /\ pc = "remove_background_save"
    /\ \E ok \in BOOLEAN :
        /\ ok => format_of(argv.output) = "PNG"
        /\ stages' = Append(stages, Stage("save_result", ok))
        /\ IF ok
           THEN /\ files' = files \cup {argv.output}
                /\ writes' = Append(writes, Written(argv.output, output, "PNG"))
                /\ printed' = Append(printed,
                                     Msg("Background removed image saved to", ""))
                /\ exc' = exc
                /\ pc' = "remove_background_remove"
           ELSE /\ files' \in (IF format_of(argv.output) = "unknown"
                               THEN {files} ELSE AfterFailedSave(argv.output))
                /\ writes' = writes
                /\ printed' = printed
                /\ exc' = IF format_of(argv.output) = "unknown"
                          THEN "ValueError" ELSE "OSError"
                /\ pc' = "remove_background_except"
    /\ UNCHANGED <<entry, argv, call, dirs, img, mask, exit_status, ret>>
    /\ UNCHANGED <<v1_vars, v2_vars>>

\* Lines 59-62: os.remove(mask_path), the last statement but the timing
\* report.
remove_background_remove ==
    /\ pc = "remove_background_remove"
    /\ files' = files \ {call.output_path}
    /\ stages' = Append(stages, Stage("remove_mask", TRUE))
    /\ printed' = Append(printed, Msg("Background removal completed in", ""))
    /\ pc' = "remove_background_returned"
    /\ UNCHANGED <<entry, argv, call, dirs, writes, img, mask, exc,
                   exit_status, ret>>
    /\ UNCHANGED <<v1_vars, v2_vars>>

\* Lines 64-66: the error is printed and the process exits with status 1.
remove_background_except ==
    /\ pc = "remove_background_except"
    /\ printed' = Append(printed, Msg("Error removing background", exc))
    /\ exit_status' = 1
    /\ pc' = "exited"
    /\ UNCHANGED <<entry, argv, call, files, dirs, writes, img, mask, stages,
                   exc, ret>>
    /\ UNCHANGED <<v1_vars, v2_vars>>

\* test_rmbg.py main returns after remove_background: exit status 0.
test_rmbg_main_end ==
    /\ pc = "remove_background_returned"
    /\ exit_status' = 0
    /\ pc' = "exited"
    /\ UNCHANGED <<entry, argv, call, files, dirs, writes, img, mask, stages,
                   exc, printed, ret>>
    /\ UNCHANGED <<v1_vars, v2_vars>>

Next ==
    \/ main2
    \/ call_process_image
    \/ RMBG2_init
    \/ load_image
    \/ predict
    \/ composite
    \/ makedirs
    \/ save_output
    \/ save_mask
    \/ process_image_return
    \/ process_image_except
    \/ main2_end
    \/ main1
    \/ check_model_exists
    \/ load_model
    \/ standard_pipeline
    \/ hub_pipeline
    \/ preprocess_image
    \/ run_pipe
    \/ inference_threshold
    \/ inference_enhance
    \/ inference_save
    \/ inference_return
    \/ inference_except
    \/ main1_end
    \/ test_rmbg2_onnx
    \/ test_rmbg2_onnx_end
    \/ compare_with_original
    \/ test_rmbg_main
    \/ remove_background
    \/ remove_background_putalpha
    \/ remove_background_save
    \/ remove_background_remove
    \/ remove_background_except
    \/ test_rmbg_main_end

Spec == Init /\ [][Next]_vars

\* ================================================================ claims
Failed(st) == \E i \in DOMAIN stages : stages[i].stage = st /\ ~stages[i].ok
Succeeded(st) == \E i \in DOMAIN stages : stages[i].stage = st /\ stages[i].ok

ErrorTexts == {"Error: Model file not found", "Error loading RMBG-V1 model",
               "Error creating pipeline", "Error during inference", "Error"}

BackendScripts == {"rmbg2_main", "rmbg_main"}

\* The entry points that run rmbg_inference.inference.
RmbgEntries == {"rmbg_main", "test_rmbg"}

\* The run failed: the last stage attempted failed.
RunFailed == stages # <<>> /\ ~stages[Len(stages)].ok

\* C1: in both backend scripts a run in which a stage failed ends with an
\* error message printed last and exit status 1, and a run that ends with
\* exit status 0 had no failure other than a standard-pipeline attempt that
\* a fallback pipeline made good.
C1_FailureExitsWithStatus1 ==
    (entry \in BackendScripts /\ pc = "exited") =>
        /\ RunFailed =>
             /\ exit_status = 1
             /\ printed # <<>>
             /\ printed[Len(printed)].text \in ErrorTexts
        /\ exit_status = 0 =>
             \A i \in DOMAIN stages :
                ~stages[i].ok =>
                    /\ stages[i].stage = "standard_pipeline"
                    /\ i < Len(stages)
                    /\ stages[i + 1].ok

C1_Witness ==
    /\ entry = "rmbg2_main"
    /\ pc = "exited"
    /\ Failed("save_mask")
    /\ exit_status = 1

WroteMaskPng ==
    \E i \in DOMAIN writes : writes[i].mode = "L" /\ writes[i].format = "PNG"
WroteRgbaPng ==
    \E i \in DOMAIN writes : writes[i].mode = "RGBA" /\ writes[i].format = "PNG"

\* C2 as claimed: a successful run of either backend script has written a
\* mask PNG and an RGBA PNG.
C2_BothScriptsWriteBoth ==
    (entry \in BackendScripts /\ pc = "exited" /\ exit_status = 0) =>
        WroteMaskPng /\ WroteRgbaPng

\* C2 as amended: a successful run of rmbg2_inference.py has written a mask
\* PNG and an RGBA PNG; a successful run of rmbg_inference.py has written
\* one file only, the mode-L mask at output_path in the format of the
\* path's extension, and no RGBA composite.
C2_Amended ==
    /\ (entry = "rmbg2_main" /\ pc = "exited" /\ exit_status = 0) =>
            WroteMaskPng /\ WroteRgbaPng
    /\ (entry = "rmbg_main" /\ pc = "exited" /\ exit_status = 0) =>
            /\ Len(writes) = 1
            /\ writes[1].path = argv.output
            /\ writes[1].mode = "L"
            /\ writes[1].format = (IF argv.output = <<"m", ".", "jpg">>
                                   THEN "JPEG" ELSE "PNG")

C2_Witness ==
    /\ entry = "rmbg_main"
    /\ pc = "exited"
    /\ exit_status = 0
    /\ Len(writes) = 1

Rmbg2Entries == {"rmbg2_main", "process_image", "test_rmbg2"}

\* C3: once predict has returned, the mask has the input image's size
\* (orig_width, orig_height) although the model ran on a 1 x 3 x 1024 x 1024
\* tensor, and both images process_image returns have that size.
C3_SizesRestored ==
    entry \in Rmbg2Entries =>
        /\ mask # NoImage =>
             /\ mask.size = orig_size
             /\ tensor = <<1, 3, 1024, 1024>>
        /\ ret.process_image.status = "returned" =>
             /\ ret.process_image.value[1].size = orig_size
             /\ ret.process_image.value[2].size = orig_size
             /\ ret.process_image.value[1].mode = "RGBA"

C3_Witness ==
    /\ ret.process_image.status = "returned"
    /\ orig_size = <<1, 2>>

EndPath == {"process_image_except", "process_image_raised", "inference_except",
            "remove_background_except", "exited", "compare_with_original",
            "compare_try"}

output_v1 == <<"test_photo_nobg_v1", ".", "png">>
output_v2 == <<"test_photo_nobg_v2", ".", "png">>

\* C5: when test_rmbg2.py has ended after the smoke test returned,
\* compare_with_original has returned (not raised) True exactly when both
\* output files exist.
C5_CompareReturns ==
    (entry = "test_rmbg2" /\ pc = "exited"
        /\ ret.test_rmbg2_onnx.status = "returned") =>
        /\ ret.compare_with_original.status = "returned"
        /\ ret.compare_with_original.value = ({output_v1, output_v2} \subseteq files)

\* The post-processing steps the toggles of the call enable.
EnabledSteps ==
    (IF call.edge_enhancement THEN <<"edge_enhancement">> ELSE <<>>)
    \o (IF call.color_aware THEN <<"color_aware">> ELSE <<>>)

\* C6: for every combination of the two toggles, once the model run has
\* succeeded post-processing does not fail, and when the mask is about to
\* be saved exactly the enabled steps have been applied.
C6_TogglesIndependent ==
    (entry = "rmbg_main" /\ Succeeded("forward")) =>
        /\ ~Failed("enhance")
        /\ pc \in {"save", "inference_return", "inference_returned"} =>
                applied = EnabledSteps

EarlyStages == {"model_check", "model_load", "image_load", "forward",
                "threshold", "enhance", "composite"}

\* The mask path and the directory expected for each output path in use.
ExpectedMaskPath(out) ==
    CASE out = <<"out", "/", "a", ".", "png">> -> <<"out", "/", "a", "_mask", ".", "png">>
      [] out = <<"a">> -> <<"a", "_mask", ".", "png">>
      [] out = <<"o", ".", "d", "/", "a">> -> <<"o", ".", "d", "/", "a", "_mask", ".", "png">>
      [] out = <<"in", "_nobg", ".", "png">> -> <<"in", "_nobg", "_mask", ".", "png">>
      [] out = <<"http:", "/", "/", "h", "/", "in", "_nobg", ".", "png">>
            -> <<"http:", "/", "/", "h", "/", "in", "_nobg", "_mask", ".", "png">>
      [] out = <<"test_photo_nobg_rmbg2", ".", "png">>
            -> <<"test_photo_nobg_rmbg2", "_mask", ".", "png">>

ExpectedDir(out) ==
    CASE out = <<"out", "/", "a", ".", "png">> -> <<"out">>
      [] out = <<"o", ".", "d", "/", "a">> -> <<"o", ".", "d">>
      [] out = <<"http:", "/", "/", "h", "/", "in", "_nobg", ".", "png">>
            -> <<"http:", "/", "/", "h">>
      [] OTHER -> <<>>

\* The image files a backend call writes.
OutputFiles ==
    IF call.caller = "none" \/ call.output_path = None THEN {}
    ELSE IF entry \in RmbgEntries THEN {call.output_path}
    ELSE {call.output_path, ExpectedMaskPath(call.output_path)}

\* C7: while the run is in, or has failed in, a stage before the save, no
\* output file and no mask file has been written.
C7_NoWriteBeforeSave ==
    (\/ \E i \in DOMAIN stages : stages[i].stage \in EarlyStages /\ ~stages[i].ok
     \/ pc \in {"RMBG2_init", "load_image", "predict", "composite", "makedirs",
                "create_pipeline", "load_model", "standard_pipeline",
                "hub_pipeline", "preprocess_image", "pipe", "apply_threshold",
                "enhance_mask"}) =>
        \A j \in DOMAIN writes : writes[j].path \notin OutputFiles

C7_Witness ==
    /\ entry = "rmbg_main"
    /\ Failed("enhance")
    /\ pc = "exited"
    /\ writes = <<>>

\* What process_image itself wrote (test_rmbg2.py may have saved its test
\* image before the call).
ProcessImageWrites == SelectSeq(writes, LAMBDA w : w.path # test_image)

\* C8: when process_image has returned, it returned (output, mask); with an
\* output_path it wrote the RGBA composite to output_path and then the mask
\* to <output_path without extension>_mask.png, both as PNG, and the output
\* directory exists; without one it wrote nothing.
C8_ProcessImageOutputs ==
    ret.process_image.status = "returned" =>
        /\ ret.process_image.value = <<output, mask>>
        /\ output.mode = "RGBA" /\ mask.mode = "L"
        /\ IF call.output_path = None
           THEN ProcessImageWrites = <<>>
           ELSE /\ ProcessImageWrites =
                     << [path |-> call.output_path, mode |-> "RGBA",
                         format |-> "PNG", size |-> orig_size],
                        [path |-> ExpectedMaskPath(call.output_path), mode |-> "L",
                         format |-> "PNG", size |-> orig_size] >>
                /\ {call.output_path, ExpectedMaskPath(call.output_path)} \subseteq files
                /\ ExpectedDir(call.output_path) # <<>> =>
                        ExpectedDir(call.output_path) \in dirs

C8_Witness ==
    /\ ret.process_image.status = "returned"
    /\ call.output_path = <<"o", ".", "d", "/", "a">>
    /\ Succeeded("makedirs")

\* C9: once test_rmbg2_onnx has ended after calling process_image, it has
\* returned True if process_image returned and False if it raised; an
\* exception that leaves test_rmbg2_onnx is never one of process_image.
C9_SmokeTestResult ==
    entry = "test_rmbg2" =>
        /\ (ret.process_image.status # "unset"
            /\ pc \notin {"process_image_returned", "process_image_raised"}) =>
                ret.test_rmbg2_onnx =
                    Returned(ret.process_image.status = "returned")
        /\ ret.test_rmbg2_onnx.status = "raised" =>
                ret.process_image.status = "unset"
        /\ ret.test_rmbg2_onnx.status = "returned" =>
                ret.process_image.status # "unset"

C9_Witness ==
    /\ entry = "test_rmbg2"
    /\ ret.process_image.status = "raised"
    /\ ret.test_rmbg2_onnx = Returned(FALSE)

\* The least pixel value that reaches threshold * 255 (threshold in
\* hundredths): the ceiling of 255 * threshold / 100.
Cutoff(threshold) == (255 * threshold + 99) \div 100

\* C10: the step that applies the threshold leaves the mask's dimensions
\* alone and maps each pixel to 255 when it is at least threshold * 255
\* and to 0 otherwise.
C10_ThresholdStep ==
    [][pc = "apply_threshold" =>
        /\ mask'.size = mask.size
        /\ DOMAIN mask'.px = DOMAIN mask.px
        /\ \A r \in DOMAIN mask.px :
            /\ DOMAIN mask'.px[r] = DOMAIN mask.px[r]
            /\ \A c \in DOMAIN mask.px[r] :
                /\ mask'.px[r][c] \in {0, 255}
                /\ mask'.px[r][c] = 255 <=> mask.px[r][c] >= Cutoff(call.threshold)]_vars

C10_Witness ==
    /\ pc = "save"
    /\ call.threshold = 100
    /\ mask.px = <<<<0, 255>>, <<255, 0>>>>

\* create_pipeline has returned to inference: the image load that follows
\* it is next or has been attempted.
create_pipeline_returned ==
    /\ entry \in RmbgEntries
    /\ pc = "preprocess_image" \/ Failed("image_load") \/ Succeeded("image_load")

\* C11: create_pipeline returns only with a pipeline object: the standard
\* pipeline when that was built, else the model itself when it has a pipe,
\* else the hub pipeline; when the hub pipeline fails as well the process
\* has exited with status 1 and the error in the final "Error creating
\* pipeline" message is the standard pipeline's, not the fallback's.
C11_PipelineOrExit ==
    /\ create_pipeline_returned =>
        /\ pipe \in {"standard", "builtin", "hub"}
        /\ pipe = "standard" <=> Succeeded("standard_pipeline")
        /\ pipe = "builtin" <=>
              (Failed("standard_pipeline") /\ model = "model_with_pipe")
        /\ pipe = "hub" <=>
              (Failed("standard_pipeline") /\ model = "model"
               /\ Succeeded("hub_pipeline"))
    /\ Failed("hub_pipeline") =>
        /\ pc = "exited"
        /\ exit_status = 1
        /\ pipe = "none"
        /\ ~create_pipeline_returned
        /\ printed[Len(printed)] =
              Msg("Error creating pipeline", "StandardPipelineError")
    /\ (entry \in RmbgEntries
        /\ (Failed("model_check") \/ Failed("model_load"))) =>
        /\ pc = "exited"
        /\ exit_status = 1
        /\ pipe = "none"

C11_Witness ==
    /\ pc = "exited"
    /\ Failed("standard_pipeline")
    /\ Failed("hub_pipeline")
    /\ model = "model"

\* Every pixel of the image is 0 or 255.
Binary(m) ==
    \A r \in DOMAIN m.px : \A c \in DOMAIN m.px[r] : m.px[r][c] \in {0, 255}

\* The step is inference's mask.save(output_path) succeeding.
SavesMask == pc = "save" /\ Len(writes') = Len(writes) + 1

\* C12: the mask that inference saves is the one it holds and, with
\* color_aware enabled or edge_enhancement disabled, every pixel of it is 0
\* or 255; with both toggles disabled the threshold step goes straight to
\* the save with apply_threshold's output, enhance_mask not being called.
C12_SavedMaskBinary ==
    [][/\ SavesMask =>
            /\ writes'[Len(writes')] =
                  Written(call.output_path, mask, format_of(call.output_path))
            /\ mask' = mask
            /\ (call.color_aware \/ ~call.edge_enhancement) => Binary(mask)
            /\ (~call.color_aware /\ ~call.edge_enhancement) =>
                  /\ applied = <<>>
                  /\ stages[Len(stages)] = Stage("threshold", TRUE)
       /\ (pc = "apply_threshold" /\ ~call.color_aware /\ ~call.edge_enhancement) =>
            /\ mask' = apply_threshold(mask, call.threshold)
            /\ pc' = "save"
            /\ applied' = <<>>]_vars

C12_Witness ==
    /\ pc = "inference_return"
    /\ call.color_aware
    /\ call.edge_enhancement
    /\ applied = <<"edge_enhancement", "color_aware">>
    /\ Len(writes) = 1
    /\ \E r \in DOMAIN mask.px : \E c \in DOMAIN mask.px[r] : mask.px[r][c] = 0
    /\ \E r \in DOMAIN mask.px : \E c \in DOMAIN mask.px[r] : mask.px[r][c] = 255

\* inference has written the mask file remove_background asked it for.
TempMaskCreated ==
    /\ entry = "test_rmbg"
    /\ call.caller = "remove_background"
    /\ \E i \in DOMAIN writes : writes[i].path = call.output_path

\* C13: once test_rmbg.py has ended, with success or with an error, the
\* temporary mask file <output stem>_mask.png that inference wrote for
\* remove_background does not exist any more.
C13_TempMaskRemoved ==
    (TempMaskCreated /\ pc = "exited") => call.output_path \notin files

\* edge_mask.max() of line 150 for the mask enhance_mask is about to be
\* given: the square root of the largest sobel_x**2 + sobel_y**2.
EdgeDivisor(conv) == isqrt_ratio(array_max(edge_sq(mask.px, conv)), 1)

\* C14: whenever inference calls enhance_mask with edge_enhancement
\* enabled, the maximum of the edge map, by which the map is divided, is
\* not zero.
C14_DivisorNonZero ==
    (pc = "enhance_mask" /\ call.edge_enhancement) =>
        \A conv \in {"wrap", "zero"} : EdgeDivisor(conv) # 0

====
